---- MODULE Spec2Model ----
(***************************************************************************)
(* A model of rt2122/X-ray-modules, package eR_Mask_RCNN:                  *)
(*   torch.py       the My_Mask_RCNN training / inference wrapper          *)
(*   transforms.py  the augmentation stages (flips, Rotation90)            *)
(* The wrapper and the augmentation stages are explored by separate        *)
(* specifications over one set of variables.                               *)
(***************************************************************************)
EXTENDS Integers, Sequences, FiniteSets, TLC

(***************************************************************************)
(* Bounds of the exploration.                                              *)
(***************************************************************************)
MaxFreq == 2
MaxEpochs == 3
LongEpochs == 52
MaxTrainCalls == 2
MaxSteps == 4
MaxArea == 4
MaxCalls == 4

(***************************************************************************)
(* Program constants.                                                      *)
(***************************************************************************)
InitLrDen == 1000
Milestones == {15, 25, 35, 50}
GammaInv == 10
DefaultFreq == 10
APIndex == 0
ARIndex == 6
StatsLen == ARIndex + 1
RandLo == 0
RandHi == 4

\* sizes of the validation dataset, and the indices asked of it
ValSizes == {0, 1}
ValIndices == {0, 1}

VARIABLES
    \* ---- My_Mask_RCNN (torch.py) ----
    model_path,      \* self.model_path: the checkpoint template, a sequence of tokens
    save_hist_freq,  \* self.save_hist_freq
    val_items,       \* items of self.data_loader_val.dataset, or Unset before prepare_data
    losses,          \* self.losses
    metrics,         \* self.metrics
    last_epoch,      \* self.lr_scheduler.last_epoch
    lr_den,          \* the optimizer's learning rate is 1 / lr_den
    pc,              \* "idle", or "training" inside train_model's loop
    num_epochs,      \* train_model's argument
    epoch,           \* train_model's loop variable
    ckpt,            \* checkpoint files on disk (their paths)
    losses_csv,      \* losses.csv
    metrics_csv,     \* metrics.csv
    op,              \* the method called last
    error,           \* the exception it raised, or "none"
    ret,             \* what it returned
    inferred,        \* whether it ran a forward pass of the model
    \* history variables of the wrapper
    written,         \* checkpoint paths written by the latest train_model call
    last_trained,    \* epoch index and learning rate of the latest train_one_epoch call
    train_calls,     \* number of train_model calls made
    completed,       \* number of loop iterations of train_model that ran to their end
    \* ---- transforms.py ----
    image,           \* the image tensor, one plane: [h, w, px]
    target,          \* the target dict [boxes, masks], or None
    n,               \* Rotation90.__call__'s n of the latest call
    terr,            \* the exception a stage raised, or "none"
    \* history variables of the stages
    image0,          \* the image before any stage
    target0,         \* the target before any stage
    calls,           \* number of stage calls made
    only             \* the call made so far when all calls were alike, else Mixed

wvars == <<model_path, save_hist_freq, val_items, losses, metrics, last_epoch, lr_den,
           pc, num_epochs, epoch, ckpt, losses_csv, metrics_csv, op, error, ret,
           inferred, written, last_trained, train_calls, completed>>
tvars == <<image, target, n, terr, image0, target0, calls, only>>
vars == <<wvars, tvars>>

Unset == -1
\* a CSV file on disk: whether it exists, and its rows
NoFile == [exists |-> FALSE, rows |-> <<>>]
File(rows) == [exists |-> TRUE, rows |-> rows]
None == [none |-> TRUE]

IsPrefix(s, t) == Len(s) <= Len(t) /\ SubSeq(t, 1, Len(s)) = s

(***************************************************************************)
(* str.format on the checkpoint template (torch.py:126).  A template is a  *)
(* sequence of tokens: "{}" is an automatically numbered field, "{epoch}"  *)
(* a named field, anything else literal text.  Fields are filled left to   *)
(* right from the positional arguments; unused arguments are ignored.      *)
(***************************************************************************)
Digit(d) == <<"0", "1", "2", "3", "4", "5", "6", "7", "8", "9">>[d + 1]

RECURSIVE Str(_)
Str(i) == IF i < 10 THEN <<Digit(i)>> ELSE Str(i \div 10) \o <<Digit(i % 10)>>

RECURSIVE FormatFrom(_, _, _)
FormatRaisesOnUnusedArgs(tpl, args) ==
    IF \A i \in 1..Len(tpl) : tpl[i] # "{}"
    THEN [err |-> "IndexError", out |-> <<>>]
    ELSE FormatFrom(tpl, 0, args)

FormatFrom(tpl, k, args) ==
    IF tpl = <<>> THEN [err |-> "none", out |-> <<>>]
    ELSE LET t == Head(tpl) IN
         IF t = "{epoch}" THEN [err |-> "KeyError", out |-> <<>>]
         ELSE IF t = "{}"
              THEN IF k + 1 > Len(args)
                   THEN [err |-> "IndexError", out |-> <<>>]
                   ELSE LET r == FormatFrom(Tail(tpl), k + 1, args)
                        IN  [err |-> r.err,
                             out |-> IF r.err = "none" THEN Str(args[k + 1]) \o r.out ELSE <<>>]
              ELSE LET r == FormatFrom(Tail(tpl), k, args)
                   IN  [err |-> r.err,
                        out |-> IF r.err = "none" THEN <<t>> \o r.out ELSE <<>>]

Format(tpl, args) == FormatFrom(tpl, 0, args)

(***************************************************************************)
(* My_Mask_RCNN.__init__ (torch.py:57-84).                                 *)
(***************************************************************************)
DefaultTemplate == <<"/", "mrcnn_ep", "{}", ".pth">>

PathInputs ==
    { [isdir |-> TRUE,  toks |-> <<"models">>],
      [isdir |-> FALSE, toks |-> <<"models/m", "{}", ".pth">>],
      [isdir |-> FALSE, toks |-> <<"models/m", ".pth">>],
      [isdir |-> FALSE, toks |-> <<"models/m", "{}", "_", "{}", ".pth">>],
      [isdir |-> FALSE, toks |-> <<"models/m", "{epoch}", ".pth">>] }

ResolvePath(p) == IF p.isdir THEN p.toks \o DefaultTemplate ELSE p.toks

Fields(tpl) == {i \in 1..Len(tpl) : tpl[i] \in {"{}", "{epoch}"}}

TransformsIdle ==
    /\ image = None /\ target = None /\ n = 0 /\ terr = "none"
    /\ image0 = None /\ target0 = None /\ calls = 0 /\ only = None

Construct(path, freq) ==
    /\ model_path = ResolvePath(path)
    /\ save_hist_freq = freq
    /\ val_items = Unset
    /\ losses = <<>>
    /\ metrics = <<>>
    /\ last_epoch = 0
    /\ lr_den = InitLrDen
    /\ pc = "idle" /\ num_epochs = 0 /\ epoch = 0
    /\ ckpt = {} /\ losses_csv = NoFile /\ metrics_csv = NoFile
    /\ op = "__init__" /\ error = "none" /\ ret = "none" /\ inferred = FALSE
    /\ written = {} /\ last_trained = None /\ train_calls = 0 /\ completed = 0

Init ==
    /\ \E path \in PathInputs, freq \in 0..MaxFreq : Construct(path, freq)
    /\ TransformsIdle

(***************************************************************************)
(* The delegated engine (pytorch_References.engine), seen through what     *)
(* train_model keeps of its results: the meters' averages and the          *)
(* evaluators' stats vectors.  ver is the number of training passes the    *)
(* model has had.                                                          *)
(***************************************************************************)
IouTypes == {"bbox", "segm"}

TrainMeters(ver, lr) == [loss |-> ver, lr |-> lr]

\* A stats vector of the evaluator (COCOeval.stats, StatsLen numbers) is kept as
\* a code of the pass, the dataset and the IoU type that produced it; StatAt is
\* its i-th number (0-based), different for every vector and index.
StatsVector(ver, ds, k) ==
    (ver * 2 + (IF ds = "val" THEN 1 ELSE 0)) * 2 + (IF k = "segm" THEN 1 ELSE 0)

StatAt(v, i) == v * StatsLen + i

EvalStats(ver, ds) == [k \in IouTypes |-> StatsVector(ver, ds, k)]

\* torch.py:121-124: the merged train and 'val_'-prefixed metric record
EpochMetrics(ver) ==
    LET metr == EvalStats(ver, "train")
        val_metr == EvalStats(ver, "val")
    IN  [kk \in {"", "val_"} \X IouTypes |->
            IF kk[1] = "val_" THEN val_metr[kk[2]] ELSE metr[kk[2]]]

(***************************************************************************)
(* extract_metrics (torch.py:164-177).                                     *)
(***************************************************************************)
ExtractLine(line) ==
    [kk \in (DOMAIN line) \X {"_AP", "_AR"} |->
        IF kk[2] = "_AP" THEN StatAt(line[kk[1]], APIndex) ELSE StatAt(line[kk[1]], ARIndex)]

ExtractMetrics(ms) == [i \in 1..Len(ms) |-> ExtractLine(ms[i])]

(***************************************************************************)
(* MultiStepLR.step (torch.py:80-81, called at torch.py:114).              *)
(***************************************************************************)
SchedulerStepOffByOne(le, lr) ==
    [last_epoch |-> le + 1,
     lr_den |-> IF le \in Milestones THEN lr * GammaInv ELSE lr]

SchedulerStep(le, lr) ==
    [last_epoch |-> le + 1,
     lr_den |-> IF (le + 1) \in Milestones THEN lr * GammaInv ELSE lr]

(***************************************************************************)
(* save_history (torch.py:179-194): both files are rewritten in full from  *)
(* the histories in memory.                                                *)
(***************************************************************************)
MetricsFile(ms) == File(ExtractMetrics(ms))
LossesFile(ls) == File(ls)

(***************************************************************************)
(* Pieces of one iteration of train_model's loop (torch.py:108-132).       *)
(***************************************************************************)
\* torch.py:131, evaluated only when freq # 0 (0 raises ZeroDivisionError)
SaveDueIgnoringFinal(e, N, freq) == e % freq = 0

SaveDue(e, N, freq) == e % freq = 0 \/ e = N - 1

\* torch.py:126: torch.save creates or overwrites the file at the path
CkptKeepLatestOnly(files, name) == {name}

CkptAfterSave(files, name) == files \cup {name}

\* torch.py:128-129
AppendPrepends(hist, rec) == <<rec>> \o hist

AppendRecord(hist, rec) == Append(hist, rec)

Outcomes == {"ok", "train_raises", "eval_raises", "eval_val_raises", "save_raises",
             "history_raises"}

\* the calls that may have written a file when they raise
PartialOutcomes == {"save_raises", "history_raises"}

Abort(kind) ==
    /\ pc' = "idle"
    /\ error' = kind
    /\ UNCHANGED <<epoch, num_epochs>>

(***************************************************************************)
(* train_model (torch.py:104-132): the call, then one action per loop      *)
(* iteration.  outcome says which delegated call, if any, raises in this   *)
(* iteration; partial says whether a torch.save that raises has already    *)
(* created its file, and whether a save_history that raises has already    *)
(* written metrics.csv.                                                    *)
(***************************************************************************)
TrainModel(N) ==
    /\ pc = "idle"
    /\ train_calls < MaxTrainCalls
    /\ train_calls' = train_calls + 1
    /\ op' = "train_model"
    /\ error' = "none" /\ ret' = "none" /\ inferred' = FALSE
    /\ num_epochs' = N
    /\ epoch' = 0
    /\ written' = {}
    /\ pc' = IF N > 0 THEN "training" ELSE "idle"
    /\ UNCHANGED <<model_path, save_hist_freq, val_items, losses, metrics, last_epoch,
                   lr_den, ckpt, losses_csv, metrics_csv, last_trained, completed>>
    /\ UNCHANGED tvars

Epoch(outcome, partial) ==
    /\ pc = "training"
    /\ epoch < num_epochs
    /\ UNCHANGED <<model_path, save_hist_freq, val_items, op, ret, inferred, train_calls>>
    /\ UNCHANGED tvars
    /\ IF val_items = Unset
       THEN \* torch.py:112: self.data_loader does not exist before prepare_data
            /\ Abort("AttributeError")
            /\ UNCHANGED <<losses, metrics, last_epoch, lr_den, ckpt, losses_csv,
                           metrics_csv, written, last_trained, completed>>
       ELSE
       /\ last_trained' = [epoch |-> epoch, lr_den |-> lr_den, steps |-> last_epoch]
       /\ IF outcome = "train_raises"
          THEN \* torch.py:112
               /\ Abort("EngineError")
               /\ UNCHANGED <<losses, metrics, last_epoch, lr_den, ckpt, losses_csv,
                              metrics_csv, written, completed>>
          ELSE
          LET epoch_losses == TrainMeters(last_epoch + 1, lr_den)
              stepped == SchedulerStep(last_epoch, lr_den)
              epoch_metrics == EpochMetrics(last_epoch + 1)
              name == Format(model_path, <<epoch>>)
          IN
          /\ last_epoch' = stepped.last_epoch
          /\ lr_den' = stepped.lr_den
          /\ IF outcome \in {"eval_raises", "eval_val_raises"}
             THEN \* torch.py:118-120
                  /\ Abort("EngineError")
                  /\ UNCHANGED <<losses, metrics, ckpt, losses_csv, metrics_csv,
                                 written, completed>>
             ELSE IF name.err # "none"
             THEN \* torch.py:126: str.format raises
                  /\ Abort(name.err)
                  /\ UNCHANGED <<losses, metrics, ckpt, losses_csv, metrics_csv,
                                 written, completed>>
             ELSE IF outcome = "save_raises"
             THEN \* torch.py:126: torch.save raises
                  /\ Abort("IOError")
                  /\ ckpt' = IF partial THEN CkptAfterSave(ckpt, name.out) ELSE ckpt
                  /\ UNCHANGED <<losses, metrics, losses_csv, metrics_csv,
                                 written, completed>>
             ELSE
             /\ ckpt' = CkptAfterSave(ckpt, name.out)
             /\ written' = written \cup {name.out}
             /\ losses' = AppendRecord(losses, epoch_losses)
             /\ metrics' = AppendRecord(metrics, epoch_metrics)
             /\ IF save_hist_freq = 0
                THEN \* torch.py:131: epoch % 0
                     /\ Abort("ZeroDivisionError")
                     /\ UNCHANGED <<losses_csv, metrics_csv, completed>>
                ELSE IF SaveDue(epoch, num_epochs, save_hist_freq)
                        /\ outcome = "history_raises"
                THEN \* torch.py:132: a to_csv of save_history raises, before
                     \* metrics.csv is written or after
                     /\ Abort("OSError")
                     /\ metrics_csv' = IF partial THEN MetricsFile(metrics') ELSE metrics_csv
                     /\ UNCHANGED <<losses_csv, completed>>
                ELSE
                /\ IF SaveDue(epoch, num_epochs, save_hist_freq)
                   THEN /\ metrics_csv' = MetricsFile(metrics')
                        /\ losses_csv' = LossesFile(losses')
                   ELSE UNCHANGED <<losses_csv, metrics_csv>>
                /\ completed' = completed + 1
                /\ epoch' = epoch + 1
                /\ pc' = IF epoch + 1 = num_epochs THEN "idle" ELSE "training"
                /\ UNCHANGED <<num_epochs, error>>

(***************************************************************************)
(* The other methods, callable between train_model calls.                  *)
(***************************************************************************)
Call(name, err, result, fwd) ==
    /\ pc = "idle"
    /\ op' = name /\ error' = err /\ ret' = result /\ inferred' = fwd
    /\ UNCHANGED <<model_path, save_hist_freq, losses, metrics, last_epoch, lr_den,
                   pc, num_epochs, epoch, ckpt, written, last_trained, train_calls,
                   completed>>
    /\ UNCHANGED tvars

\* prepare_data (torch.py:86-102): items is the size of the validation dataset
PrepareData(items) ==
    /\ Call("prepare_data", "none", "none", FALSE)
    /\ val_items' = items
    /\ UNCHANGED <<losses_csv, metrics_csv>>

\* make_prediction (torch.py:134-148)
MakePrediction(idx) ==
    /\ IF val_items = Unset THEN Call("make_prediction", "AttributeError", "none", FALSE)
       ELSE IF idx >= val_items THEN Call("make_prediction", "IndexError", "none", FALSE)
       ELSE Call("make_prediction", "none", "prediction", TRUE)
    /\ UNCHANGED <<val_items, losses_csv, metrics_csv>>

\* measure_inf_time (torch.py:150-162): with no batch the for loop leaves
\* images unbound, and torch.py:156 reads it
MeasureReturnsSilently(items) ==
    IF items = 0
    THEN [error |-> "none", ret |-> "undefined", inferred |-> FALSE]
    ELSE [error |-> "none", ret |-> "elapsed", inferred |-> TRUE]

MeasureOutcome(items) ==
    IF items = 0
    THEN [error |-> "UnboundLocalError", ret |-> "none", inferred |-> FALSE]
    ELSE [error |-> "none", ret |-> "elapsed", inferred |-> TRUE]

MeasureInfTime ==
    /\ IF val_items = Unset THEN Call("measure_inf_time", "AttributeError", "none", FALSE)
       ELSE LET o == MeasureOutcome(val_items)
            IN  Call("measure_inf_time", o.error, o.ret, o.inferred)
    /\ UNCHANGED <<val_items, losses_csv, metrics_csv>>

\* extract_metrics (torch.py:164-177), called by the user
ExtractMetricsCall ==
    /\ Call("extract_metrics", "none", ExtractMetrics(metrics), FALSE)
    /\ UNCHANGED <<val_items, losses_csv, metrics_csv>>

\* save_history (torch.py:179-194), called by the user
SaveHistory ==
    /\ Call("save_history", "none", "none", FALSE)
    /\ metrics_csv' = MetricsFile(metrics)
    /\ losses_csv' = LossesFile(losses)
    /\ UNCHANGED val_items

Next ==
    \/ \E N \in 0..MaxEpochs : last_epoch + N <= MaxSteps /\ TrainModel(N)
    \/ \E outcome \in Outcomes, partial \in BOOLEAN :
           (partial => outcome \in PartialOutcomes) /\ Epoch(outcome, partial)
    \/ \E items \in ValSizes : PrepareData(items)
    \/ \E idx \in ValIndices : MakePrediction(idx)
    \/ MeasureInfTime
    \/ ExtractMetricsCall
    \/ SaveHistory

Spec == Init /\ [][Next]_vars

(***************************************************************************)
(* The wrapper with the default configuration, trained long enough to      *)
(* cross every milestone of the learning-rate schedule.                    *)
(***************************************************************************)
InitSched ==
    /\ Construct([isdir |-> TRUE, toks |-> <<"models">>], DefaultFreq)
    /\ TransformsIdle

NextSched ==
    \/ \E N \in {1, LongEpochs} : last_epoch + N <= LongEpochs + MaxEpochs /\ TrainModel(N)
    \/ \E outcome \in Outcomes, partial \in BOOLEAN :
           (partial => outcome \in PartialOutcomes) /\ Epoch(outcome, partial)
    \/ \E items \in ValSizes : PrepareData(items)

SpecSched == InitSched /\ [][NextSched]_vars

(***************************************************************************)
(* transforms.py.  A tensor plane is a grid [h, w, px], px a function on   *)
(* (1..h) \X (1..w); the image is one plane, target["masks"] a sequence of *)
(* planes of 0 and 1.  target["boxes"] is a float32 tensor                 *)
(* (transforms.py:76): a coordinate is kept as an integer count of Unit-ths*)
(* of a pixel, and arithmetic on it rounds as float32 does.                *)
(***************************************************************************)
Unit == 2 ^ 27
F32Limit == 2 ^ 24

RECURSIVE Ulp(_)
Ulp(v) == IF v < F32Limit THEN 1 ELSE 2 * Ulp(v \div 2)

\* the float32 nearest to v >= 0, ties to the even mantissa
RoundF32(v) ==
    LET s == Ulp(v)
        q == v \div s
        r == v % s
    IN  IF 2 * r > s \/ (2 * r = s /\ q % 2 = 1) THEN (q + 1) * s ELSE q * s

\* float32 subtraction  a - b  of two float32 values
FSub(a, b) == IF a >= b THEN RoundF32(a - b) ELSE 0 - RoundF32(b - a)

Grid(h, w, f(_, _)) == [h |-> h, w |-> w, px |-> [rc \in (1..h) \X (1..w) |-> f(rc[1], rc[2])]]

\* tensor.flip(-1), F.hflip: the columns reversed
FlipCols(g) == Grid(g.h, g.w, LAMBDA r, c : g.px[<<r, g.w + 1 - c>>])

\* tensor.flip(1) on [N, H, W], F.vflip: the rows reversed
FlipRows(g) == Grid(g.h, g.w, LAMBDA r, c : g.px[<<g.h + 1 - r, c>>])

Transpose(g) == Grid(g.w, g.h, LAMBDA r, c : g.px[<<c, r>>])

\* torch.rot90(x, k, [1, 2]) (transforms.py:70, 72)
Rot90(g, k) ==
    LET kk == k % 4 IN
    IF kk = 1 THEN Transpose(FlipCols(g))
    ELSE IF kk = 2 THEN FlipRows(FlipCols(g))
    ELSE IF kk = 3 THEN Transpose(FlipRows(g))
    ELSE g

\* F.get_image_size(image) (transforms.py:37, 49): [width, height]
GetImageSize(g) == <<g.w, g.h>>

Min(S) == CHOOSE x \in S : \A y \in S : x <= y
Max(S) == CHOOSE x \in S : \A y \in S : x >= y

\* get_bbox_from_mask (transforms.py:55-61), indices 0-based; np.min of an
\* empty array raises ValueError
BboxRowsForColumns(mask) ==
    LET pos == {rc \in DOMAIN mask.px : mask.px[rc] # 0}
        rows == {rc[1] - 1 : rc \in pos}
        cols == {rc[2] - 1 : rc \in pos}
    IN  IF pos = {} THEN [err |-> "ValueError", box |-> <<>>]
        ELSE [err |-> "none", box |-> <<Min(cols), Min(rows), Max(rows), Max(cols)>>]

GetBboxFromMask(mask) ==
    LET pos == {rc \in DOMAIN mask.px : mask.px[rc] # 0}
        rows == {rc[1] - 1 : rc \in pos}
        cols == {rc[2] - 1 : rc \in pos}
    IN  IF pos = {} THEN [err |-> "ValueError", box |-> <<>>]
        ELSE [err |-> "none", box |-> <<Min(cols), Min(rows), Max(cols), Max(rows)>>]

\* torch.as_tensor(boxes, dtype=torch.float32) of one box (transforms.py:76)
AsFloat32(box) == [j \in 1..4 |-> RoundF32(box[j] * Unit)]

\* transforms.py:38: boxes[:, [0, 2]] = width - boxes[:, [2, 0]]
HFlipBoxNoSwap(width, b) == <<FSub(width * Unit, b[1]), b[2], FSub(width * Unit, b[3]), b[4]>>

HFlipBoxAliased(width, b) ==
    LET x0 == FSub(width * Unit, b[3])
    IN  <<x0, b[2], FSub(width * Unit, x0), b[4]>>

HFlipBox(width, b) == <<FSub(width * Unit, b[3]), b[2], FSub(width * Unit, b[1]), b[4]>>

\* transforms.py:50: boxes[:, [1, 3]] = height - boxes[:, [3, 1]]
VFlipBox(height, b) == <<b[1], FSub(height * Unit, b[4]), b[3], FSub(height * Unit, b[2])>>

\* random.randint(a, b) (transforms.py:69): both ends included
RandInt(a, b) == a..b

\* numbers of instances of a target
InstanceCounts == {0, 1}

\* torch.rand(1) < self.p, in hundredths
PValues == {50, 100}
USamples == {0, 50, 99}

Mixed == [mixed |-> TRUE]

StageCall(stage, prob, k) ==
    /\ image # None
    /\ terr = "none"
    /\ calls < MaxCalls
    /\ calls' = calls + 1
    /\ only' = LET d == [stage |-> stage, p |-> prob, n |-> k]
               IN  IF calls = 0 \/ only = d THEN d ELSE Mixed
    /\ UNCHANGED <<image0, target0>>
    /\ UNCHANGED wvars

\* RandomHorizontalFlip.forward (transforms.py:31-40)
RandomHorizontalFlip(prob, u) ==
    /\ StageCall("RandomHorizontalFlip", prob, 0)
    /\ UNCHANGED <<n, terr>>
    /\ IF u < prob
       THEN /\ image' = FlipCols(image)
            /\ IF target # None
               THEN LET width == GetImageSize(image')[1]
                    IN  target' = [boxes |-> [i \in DOMAIN target.boxes |->
                                                 HFlipBox(width, target.boxes[i])],
                                   masks |-> [i \in DOMAIN target.masks |->
                                                 FlipCols(target.masks[i])]]
               ELSE UNCHANGED target
       ELSE UNCHANGED <<image, target>>

\* RandomVerticalFlip.forward (transforms.py:43-52)
RandomVerticalFlip(prob, u) ==
    /\ StageCall("RandomVerticalFlip", prob, 0)
    /\ UNCHANGED <<n, terr>>
    /\ IF u < prob
       THEN /\ image' = FlipRows(image)
            /\ IF target # None
               THEN LET height == GetImageSize(image')[2]
                    IN  target' = [boxes |-> [i \in DOMAIN target.boxes |->
                                                 VFlipBox(height, target.boxes[i])],
                                   masks |-> [i \in DOMAIN target.masks |->
                                                 FlipRows(target.masks[i])]]
               ELSE UNCHANGED target
       ELSE UNCHANGED <<image, target>>

\* Rotation90.__call__ (transforms.py:67-77); k is the number drawn.  When a
\* mask is all zero, get_bbox_from_mask raises after target["masks"] has been
\* replaced, and the caller keeps its image and the old boxes.
Rotation90(k) ==
    /\ StageCall("Rotation90", 0, k)
    /\ n' = k
    /\ IF target = None
       THEN /\ image' = Rot90(image, k)
            /\ UNCHANGED <<target, terr>>
       ELSE LET masks == [i \in DOMAIN target.masks |-> Rot90(target.masks[i], k)]
                found == [i \in DOMAIN masks |-> GetBboxFromMask(masks[i])]
            IN  IF \E i \in DOMAIN found : found[i].err # "none"
                THEN /\ terr' = "ValueError"
                     /\ target' = [target EXCEPT !.masks = masks]
                     /\ UNCHANGED image
                ELSE /\ image' = Rot90(image, k)
                     /\ target' = [boxes |-> [i \in DOMAIN found |-> AsFloat32(found[i].box)],
                                   masks |-> masks]
                     /\ UNCHANGED terr

(***************************************************************************)
(* The inputs of the stages: an image of every shape of at most MaxArea    *)
(* pixels, all of whose pixel values differ; a target of InstanceCounts    *)
(* instances with any masks, its boxes made from the masks by one of the   *)
(* conventions below, or no target.                                        *)
(***************************************************************************)
Shapes == {hw \in (1..MaxArea) \X (1..MaxArea) : hw[1] * hw[2] <= MaxArea}

ImageOf(h, w) == Grid(h, w, LAMBDA r, c : (r - 1) * w + c)

MasksOf(h, w) == {[h |-> h, w |-> w, px |-> f] : f \in [(1..h) \X (1..w) -> {0, 1}]}

\* the extent of a mask in pixel indices, <<0, 0, 0, 0>> when it is empty
PixelExtent(m) ==
    LET pos == {rc \in DOMAIN m.px : m.px[rc] # 0}
    IN  IF pos = {} THEN <<0, 0, 0, 0>>
        ELSE <<Min({rc[2] : rc \in pos}) - 1, Min({rc[1] : rc \in pos}) - 1,
               Max({rc[2] : rc \in pos}) - 1, Max({rc[1] : rc \in pos}) - 1>>

\* A dataset's boxes: the pixel indices of the extent ("index"), or the
\* pixel edges around it ("edge"), moved by a sub-pixel offset (13421773 is
\* the float32 nearest to 0.1, in Units).
Conventions == {<<"index", 0>>, <<"edge", 0>>, <<"index", 13421773>>}

BoxOf(m, conv) ==
    LET e == PixelExtent(m)
        grow == IF conv[1] = "edge" THEN 1 ELSE 0
    IN  <<RoundF32(e[1] * Unit + conv[2]), RoundF32(e[2] * Unit + conv[2]),
          RoundF32((e[3] + grow) * Unit + conv[2]), RoundF32((e[4] + grow) * Unit + conv[2])>>

TargetsOf(h, w) ==
    {None} \cup
    { [boxes |-> [i \in DOMAIN ms |-> BoxOf(ms[i], conv)], masks |-> ms] :
        ms \in UNION {[1..k -> MasksOf(h, w)] : k \in InstanceCounts}, conv \in Conventions }

WrapperIdle == Construct([isdir |-> TRUE, toks |-> <<"models">>], DefaultFreq)

InitT ==
    /\ WrapperIdle
    /\ \E hw \in Shapes :
         /\ image = ImageOf(hw[1], hw[2])
         /\ target \in TargetsOf(hw[1], hw[2])
    /\ image0 = image /\ target0 = target
    /\ only = None
    /\ n = 0 /\ terr = "none" /\ calls = 0

NextT ==
    \/ \E prob \in PValues, u \in USamples : RandomHorizontalFlip(prob, u)
    \/ \E prob \in PValues, u \in USamples : RandomVerticalFlip(prob, u)
    \/ \E k \in RandInt(RandLo, RandHi) : Rotation90(k)

SpecT == InitT /\ [][NextT]_vars

(***************************************************************************)
(* The two flips alone, composed in any order on the same inputs.          *)
(***************************************************************************)
NextFlip ==
    \/ \E prob \in PValues, u \in USamples : RandomHorizontalFlip(prob, u)
    \/ \E prob \in PValues, u \in USamples : RandomVerticalFlip(prob, u)

SpecFlip == InitT /\ [][NextFlip]_vars

(***************************************************************************)
(* Properties of the wrapper.                                              *)
(***************************************************************************)
Rows(file) == Len(file.rows)

Returned == op = "train_model" /\ pc = "idle" /\ error = "none"

\* train_model was left by an exception of train_one_epoch, evaluate or torch.save
AbortedByDelegate == op = "train_model" /\ pc = "idle" /\ error \in {"EngineError", "IOError"}

CheckpointPaths(N) == {Format(model_path, <<e>>).out : e \in 0..(N - 1)}

MilestonesCrossed(e) == Cardinality({m \in Milestones : m <= e})

RateAfter(k) == InitLrDen * GammaInv ^ k

\* C1 as stated: a train_model call for N epochs ends, for every save
\* frequency, with N checkpoint files of epochs 0..N-1 written and N rows in
\* each of losses.csv and metrics.csv.
C1_AsClaimed ==
    (op = "train_model" /\ pc = "idle") =>
        /\ error # "ZeroDivisionError"
        /\ error = "none" =>
            /\ written = CheckpointPaths(num_epochs)
            /\ Cardinality(written) = num_epochs
            /\ Rows(losses_csv) = num_epochs
            /\ Rows(metrics_csv) = num_epochs

\* C1 (amended): a train_model call for N epochs that returns has written a
\* checkpoint for each epoch 0..N-1 at the path the template formats to (N
\* files for a template with its one field, one file for a template with
\* none), and for N >= 1 the save frequency is not 0 and losses.csv and
\* metrics.csv hold one row per record of the histories, which is N rows
\* when the call is the wrapper's first.
C1_TrainModelOutputs ==
    Returned =>
        /\ written = CheckpointPaths(num_epochs)
        /\ Cardinality(written) =
               IF num_epochs = 0 THEN 0
               ELSE IF Fields(model_path) = {} THEN 1 ELSE num_epochs
        /\ num_epochs >= 1 =>
            /\ save_hist_freq # 0
            /\ losses_csv = File(losses)
            /\ metrics_csv = File(ExtractMetrics(metrics))
            /\ Rows(losses_csv) = Rows(metrics_csv)
            /\ train_calls = 1 => Rows(losses_csv) = num_epochs

C1_Witness ==
    /\ Returned /\ num_epochs = 2 /\ save_hist_freq = 2 /\ train_calls = 1
    /\ Cardinality(written) = 2 /\ Rows(losses_csv) = 2 /\ Rows(metrics_csv) = 2

\* C2 as stated: training epoch e of train_model runs at the rate
\* 0.001 * 0.1^k, k the number of milestones <= e.
C2_AsClaimed ==
    last_trained # None =>
        last_trained.lr_den = RateAfter(MilestonesCrossed(last_trained.epoch))

\* C2 (amended): the rate is 0.001 * 0.1^k, k the number of milestones <= s,
\* where s is the number of steps the schedule has taken on this wrapper (one
\* per epoch whose training returned, over all train_model calls); during the
\* wrapper's first train_model call s is the epoch index e.
C2_LearningRate ==
    /\ lr_den = RateAfter(MilestonesCrossed(last_epoch))
    /\ last_trained # None =>
        /\ last_trained.lr_den = RateAfter(MilestonesCrossed(last_trained.steps))
        /\ train_calls = 1 => last_trained.steps = last_trained.epoch

C2_Witness ==
    /\ train_calls = 1 /\ last_trained # None
    /\ last_trained.epoch = 50 /\ last_trained.lr_den = 10000000

\* C6 as stated: with a template that has no field, train_model fails with a
\* formatting error at the first checkpoint write and no checkpoint is written.
C6_AsClaimed ==
    Fields(model_path) = {} =>
        /\ ckpt = {}
        /\ completed = 0

\* C6 (amended): a template that has no field is accepted at construction
\* and raises no formatting error in train_model: every epoch's checkpoint is
\* written to the template path itself, each write replacing the one before,
\* so one checkpoint file exists once an epoch has been saved.
C6_NoPlaceholder ==
    Fields(model_path) = {} =>
        /\ op = "train_model" => error \notin {"IndexError", "KeyError"}
        /\ ckpt \subseteq {model_path}
        /\ completed >= 1 => ckpt = {model_path}

C6_Witness ==
    /\ Fields(model_path) = {} /\ Returned /\ num_epochs = 3 /\ ckpt = {model_path}

\* C7 as stated: measure_inf_time with a validation loader that yields no
\* batch raises nothing, runs no inference and returns an undefined value.
C7_AsClaimed ==
    (op = "measure_inf_time" /\ val_items = 0) =>
        error = "none" /\ ~inferred

\* C7 (amended): measure_inf_time with a validation loader that yields no
\* batch runs no inference and raises UnboundLocalError (the batch variable
\* was never assigned); it returns nothing.
C7_EmptyLoaderRaises ==
    (op = "measure_inf_time" /\ val_items = 0) =>
        error = "UnboundLocalError" /\ ~inferred /\ ret = "none"

C7_Witness == op = "measure_inf_time" /\ val_items = 0 /\ error # "none"

\* C8 as stated: when a delegated call raises in epoch e, the run is over
\* and the checkpoints and the history rows of all epochs 0..e-1 are on disk.
C8_AsClaimed ==
    (AbortedByDelegate /\ epoch >= 1) =>
        /\ CheckpointPaths(epoch) \subseteq ckpt
        /\ losses_csv = File(losses)
        /\ metrics_csv = File(ExtractMetrics(metrics))

\* C8 (amended): when a delegated call raises in epoch e >= 1, the run is
\* over, the checkpoint of every epoch 0..e-1 is on disk, and losses.csv and
\* metrics.csv hold the history as of the latest save: all records but those
\* of the last (e-1) mod save_hist_freq epochs.
C8_AbortKeepsProgress ==
    (AbortedByDelegate /\ epoch >= 1) =>
        /\ CheckpointPaths(epoch) \subseteq ckpt
        /\ save_hist_freq # 0
        /\ losses_csv.exists /\ metrics_csv.exists
        /\ IsPrefix(losses_csv.rows, losses)
        /\ IsPrefix(metrics_csv.rows, ExtractMetrics(metrics))
        /\ Rows(losses_csv) = Len(losses) - ((epoch - 1) % save_hist_freq)
        /\ Rows(metrics_csv) = Len(metrics) - ((epoch - 1) % save_hist_freq)

C8_Witness ==
    /\ AbortedByDelegate /\ epoch = 2 /\ save_hist_freq = 2
    /\ Len(losses) = 2 /\ Rows(losses_csv) = 1 /\ Cardinality(ckpt) = 2

\* C9 as stated: both histories always have as many records as epochs were
\* completed.
C9_AsClaimed == Len(losses) = completed /\ Len(metrics) = completed

\* C9 (amended): both histories always have the same length, at least the
\* number of completed epochs; every step keeps the existing records in
\* place and adds at most one to each; a completed epoch adds exactly one, an
\* epoch that a train, evaluation or checkpoint call aborts adds none, and
\* an epoch aborted after the appends (by the save-frequency test with a
\* frequency of 0, or by save_history) has added its record.
C9_HistoryStep ==
    /\ Len(losses') = Len(metrics')
    /\ Len(losses') >= completed'
    /\ IsPrefix(losses, losses') /\ IsPrefix(metrics, metrics')
    /\ Len(losses') - Len(losses) \in {0, 1}
    /\ completed' - completed \in {0, 1}
    /\ completed' = completed + 1 => Len(losses') = Len(losses) + 1
    /\ (pc = "training" /\ error' \in {"EngineError", "IOError", "IndexError",
                                      "KeyError", "AttributeError"})
           => losses' = losses /\ metrics' = metrics
    /\ (Len(losses') = Len(losses) + 1 /\ completed' = completed)
           => \/ error' = "ZeroDivisionError" /\ save_hist_freq = 0
              \/ error' = "OSError" /\ SaveDue(epoch, num_epochs, save_hist_freq)

\* C9: the histories change only by appending, as the step above says.
C9_HistoryAppendOnly == [][C9_HistoryStep]_vars

C9_Witness ==
    /\ train_calls = 2 /\ completed = 4 /\ Len(losses) = 4 /\ Len(metrics) = 4
    /\ op = "save_history"

(***************************************************************************)
(* Properties of the stages.                                               *)
(***************************************************************************)
HFlipForced == [stage |-> "RandomHorizontalFlip", p |-> 100, n |-> 0]
QuarterTurn == [stage |-> "Rotation90", p |-> 0, n |-> 1]

\* one counter-clockwise quarter turn, and k of them
Turn(g) == Transpose(FlipCols(g))

RECURSIVE Turns(_, _)
Turns(g, k) == IF k = 0 THEN g ELSE Turn(Turns(g, k - 1))

NoEmptyMask(t) ==
    t = None \/ \A i \in DOMAIN t.masks : \E rc \in DOMAIN t.masks[i].px : t.masks[i].px[rc] # 0

\* width - x is a float32, so that the subtraction does not round
ExactReflection(size, x) == RoundF32(size * Unit - x) = size * Unit - x

\* C3: every Rotation90 call draws its count n in {0, 1, 2, 3}, and turns the
\* image and all masks n quarter turns.
C3_AsClaimed ==
    /\ n \in 0..3
    /\ (calls = 1 /\ only # Mixed /\ only.stage = "Rotation90" /\ terr = "none") =>
          /\ image = Turns(image0, n)
          /\ target # None =>
                \A i \in DOMAIN target.masks : target.masks[i] = Turns(target0.masks[i], n)

\* C4 as stated: RandomHorizontalFlip with p = 1 applied twice gives back the
\* image, the masks and every box.
C4_AsClaimed ==
    (calls = 2 /\ only = HFlipForced) => image = image0 /\ target = target0

\* C4 (amended): RandomHorizontalFlip with p = 1 applied twice gives back the
\* image, the masks, every box's ymin and ymax, and every xmin and xmax for
\* which width - x is computed without float32 rounding (every whole pixel
\* coordinate is such); another x comes back rounded.
C4_DoubleFlip ==
    (calls = 2 /\ only = HFlipForced) =>
        /\ image = image0
        /\ target0 = None => target = None
        /\ target0 # None =>
            /\ target.masks = target0.masks
            /\ DOMAIN target.boxes = DOMAIN target0.boxes
            /\ \A i \in DOMAIN target.boxes :
                 LET b == target.boxes[i]
                     b0 == target0.boxes[i]
                 IN  /\ b[2] = b0[2] /\ b[4] = b0[4]
                     /\ \A j \in {1, 3} : ExactReflection(image.w, b0[j]) => b[j] = b0[j]

C4_Witness ==
    /\ calls = 2 /\ only = HFlipForced /\ image.w = 2 /\ image = image0
    /\ target # None /\ Len(target.boxes) = 1 /\ target = target0
    /\ target.boxes[1][1] = 0 /\ target.boxes[1][3] = Unit

\* C5 as stated: Rotation90 applied four times with the count 1, to a pair
\* with no all-zero mask, gives back the image and the boxes.
C5_AsClaimed ==
    (calls = 4 /\ only = QuarterTurn /\ NoEmptyMask(target0)) =>
        /\ image = image0
        /\ target0 # None => target.boxes = target0.boxes

\* C5 (amended): Rotation90 applied four times with the count 1, to a pair
\* with no all-zero mask, gives back the image and the masks, and leaves as
\* boxes the pixel-index extents [min col, min row, max col, max row] of the
\* original masks: the original boxes when they were these extents.
C5_FullTurn ==
    (calls = 4 /\ only = QuarterTurn /\ NoEmptyMask(target0)) =>
        /\ terr = "none"
        /\ image = image0
        /\ target0 = None => target = None
        /\ target0 # None =>
            /\ target.masks = target0.masks
            /\ target.boxes = [i \in DOMAIN target0.masks |->
                                  [j \in 1..4 |-> PixelExtent(target0.masks[i])[j] * Unit]]

C5_Witness ==
    /\ calls = 4 /\ only = QuarterTurn /\ image.h = 2 /\ image.w = 2
    /\ target # None /\ Len(target.masks) = 1
    /\ target.boxes = target0.boxes
    /\ target.boxes[1] = <<Unit, 0, Unit, Unit>>

\* what a flip along one axis makes of boxes that lie in the image with
\* min <= max on that axis
C10_Flipped(size, lo, hi, olo, ohi) ==
    (\A i \in DOMAIN target.boxes :
        0 <= target.boxes[i][lo] /\ target.boxes[i][lo] <= target.boxes[i][hi]
                                 /\ target.boxes[i][hi] <= size * Unit)
    => /\ DOMAIN target'.boxes = DOMAIN target.boxes
       /\ \A i \in DOMAIN target.boxes :
            LET b == target.boxes[i]
                c == target'.boxes[i]
            IN  /\ 0 <= c[lo] /\ c[lo] <= c[hi] /\ c[hi] <= size * Unit
                /\ c[lo] = RoundF32(size * Unit - b[hi])
                /\ c[hi] = RoundF32(size * Unit - b[lo])
                /\ c[olo] = b[olo] /\ c[ohi] = b[ohi]

C10_FlipStep ==
    \A prob \in PValues, u \in USamples :
        (u < prob /\ target # None) =>
            /\ RandomHorizontalFlip(prob, u) => C10_Flipped(image.w, 1, 3, 2, 4)
            /\ RandomVerticalFlip(prob, u) => C10_Flipped(image.h, 2, 4, 1, 3)

\* C10: when a flip acts on a target whose boxes all lie in the image with
\* min <= max on the flipped axis, every box again has min <= max and lies
\* in the image: new min = size - old max and new max = size - old min (as
\* float32), the other axis unchanged.
C10_FlipKeepsBoxes == [][C10_FlipStep]_vars

C10_Witness ==
    /\ calls = 1 /\ only = HFlipForced /\ image.w = 2
    /\ target # None /\ Len(target.boxes) = 1
    /\ target0.boxes[1][1] = 0 /\ target0.boxes[1][3] = Unit
    /\ target.boxes[1][1] = Unit /\ target.boxes[1][3] = 2 * Unit

====
